---- MODULE Spec2Model ----
(***************************************************************************)
(* Model of backend/index.js: the resume analysis service.                 *)
(*                                                                         *)
(* Part 1: text.  A JavaScript string is a sequence of one-character       *)
(* strings, a JSON value is a record [t, v] tagged with its type, and      *)
(* extractJson is computed the way the source computes it: a regular       *)
(* expression match followed by JSON.parse.                                *)
(* Part 2: the two endpoints as a request pipeline, one step per           *)
(* suspension point (await) of the handlers.  The handlers share no        *)
(* mutable state, so one request in flight shows everything a request can  *)
(* do; the next request starts from a clean slate.                         *)
(***************************************************************************)
EXTENDS Integers, Sequences, FiniteSets, TLC

\* ------------------------------------------------------------------ bounds

\* Longest run of whitespace put around the interior of a fenced block.
MaxPad == 1

\* --------------------------------------------------------------- JS values

Null == [t |-> "null", v |-> 0]
Undefined == [t |-> "undefined", v |-> 0]
Bool(b) == [t |-> "bool", v |-> b]
Num(n) == [t |-> "num", v |-> n]
Str(s) == [t |-> "str", v |-> s]
Arr(es) == [t |-> "arr", v |-> es]
\* An object is the sequence of its <<key, value>> members in insertion order.
Obj(ms) == [t |-> "obj", v |-> ms]

\* JavaScript truthiness: !x is true of null, false, 0 and "".
Truthy(x) ==
    CASE x.t \in {"null", "undefined"} -> FALSE
      [] x.t = "bool" -> x.v
      [] x.t = "num" -> x.v # 0
      [] x.t = "str" -> x.v # <<>>
      [] OTHER -> TRUE

\* ----------------------------------------------------------- JSON.parse

Digits == {"0", "1", "2", "3", "4", "5", "6", "7", "8", "9"}

DigitVal(c) ==
    CASE c = "0" -> 0 [] c = "1" -> 1 [] c = "2" -> 2 [] c = "3" -> 3
      [] c = "4" -> 4 [] c = "5" -> 5 [] c = "6" -> 6 [] c = "7" -> 7
      [] c = "8" -> 8 [] c = "9" -> 9

\* JSON whitespace among the characters of the model (space and line feed);
\* the regular expression's \s matches the same two.
IsWs(c) == c \in {" ", "\n"}

Least(S) == CHOOSE i \in S : \A j \in S : i <= j
Greatest(S) == CHOOSE i \in S : \A j \in S : i >= j

\* The first index >= i that holds no whitespace (Len(s) + 1 at the end).
SkipWs(s, i) ==
    Least({j \in i..(Len(s) + 1) : j > Len(s) \/ ~IsWs(s[j])})

ParseFail == [ok |-> FALSE, val |-> Null, pos |-> 0]
ParseOk(x, p) == [ok |-> TRUE, val |-> x, pos |-> p]

OccursAt(s, pat, i) ==
    /\ i >= 1
    /\ i + Len(pat) - 1 <= Len(s)
    /\ SubSeq(s, i, i + Len(pat) - 1) = pat

\* The index after the run of digits that starts at i.
DigitsEnd(s, i) ==
    Least({j \in i..(Len(s) + 1) : j > Len(s) \/ s[j] \notin Digits})

RECURSIVE DigitsValue(_, _, _, _)
DigitsValue(s, i, j, acc) ==
    IF i >= j THEN acc ELSE DigitsValue(s, i + 1, j, 10 * acc + DigitVal(s[i]))

RECURSIVE Pow10(_)
Pow10(n) == IF n = 0 THEN 1 ELSE 10 * Pow10(n - 1)

\* number: "0" or a digit 1-9 followed by digits, then an optional exponent
\* e/E and digits (no sign, no fraction: "-", "+" and "." are not characters
\* of the model).
NumberExp(s, n, j, k) ==
    IF k = j + 1 THEN ParseFail
    ELSE ParseOk(Num(n * Pow10(DigitsValue(s, j + 1, k, 0))), k)

NumberFrom(s, i, j) ==
    IF j <= Len(s) /\ s[j] \in {"e", "E"}
    THEN NumberExp(s, DigitsValue(s, i, j, 0), j, DigitsEnd(s, j + 1))
    ELSE ParseOk(Num(DigitsValue(s, i, j, 0)), j)

ParseNumber(s, i) ==
    NumberFrom(s, i, IF s[i] = "0" THEN i + 1 ELSE DigitsEnd(s, i))

\* The index of the quote closing the string whose content starts at i; 0
\* when a control character comes first or the string is not closed.
StringStop(s, stop) == IF stop <= Len(s) /\ s[stop] = "\"" THEN stop ELSE 0

StringEnd(s, i) ==
    StringStop(s, Least({j \in i..(Len(s) + 1) : j > Len(s) \/ s[j] \in {"\"", "\n"}}))

StringTo(s, i, e) ==
    IF e = 0 THEN ParseFail ELSE ParseOk(Str(SubSeq(s, i + 1, e - 1)), e + 1)

\* string: a quote, characters other than a quote or a control character, a
\* quote (the backslash is not a character of the model).
ParseString(s, i) == StringTo(s, i, StringEnd(s, i + 1))

ParseLiteral(s, i, word, x) ==
    IF OccursAt(s, word, i) THEN ParseOk(x, i + Len(word)) ELSE ParseFail

RECURSIVE PutMember(_, _, _)
\* obj[key] = val: a key already present keeps its place and takes the value.
PutMember(ms, key, val) ==
    IF ms = <<>> THEN << <<key, val>> >>
    ELSE IF Head(ms)[1] = key THEN << <<key, val>> >> \o Tail(ms)
    ELSE << Head(ms) >> \o PutMember(Tail(ms), key, val)

RECURSIVE ParseValue(_, _)
RECURSIVE ParseElements(_, _, _)
RECURSIVE ParseMembers(_, _, _)

\* value, at the first character j after the whitespace: the JSON grammar
\* (RFC 8259) over the characters of the model.
ValueAt(s, j) ==
    IF j > Len(s) THEN ParseFail
    ELSE CASE s[j] = "{" -> ParseMembers(s, SkipWs(s, j + 1), <<>>)
           [] s[j] = "[" -> ParseElements(s, SkipWs(s, j + 1), <<>>)
           [] s[j] = "\"" -> ParseString(s, j)
           [] s[j] \in Digits -> ParseNumber(s, j)
           [] s[j] = "t" -> ParseLiteral(s, j, <<"t", "r", "u", "e">>, Bool(TRUE))
           [] s[j] = "f" -> ParseLiteral(s, j, <<"f", "a", "l", "s", "e">>, Bool(FALSE))
           [] s[j] = "n" -> ParseLiteral(s, j, <<"n", "u", "l", "l">>, Null)
           [] OTHER -> ParseFail

ParseValue(s, i) == ValueAt(s, SkipWs(s, i))

\* After an element, at the first character k after the whitespace: "," and
\* the next element, or "]".
ElementsNext(s, k, acc) ==
    IF k > Len(s) THEN ParseFail
    ELSE IF s[k] = "," THEN ParseElements(s, k + 1, acc)
    ELSE IF s[k] = "]" THEN ParseOk(Arr(acc), k + 1)
    ELSE ParseFail

ElementParsed(s, r, acc) ==
    IF ~r.ok THEN ParseFail ELSE ElementsNext(s, SkipWs(s, r.pos), Append(acc, r.val))

\* elements: "]" when none was read yet, or value ("," value)* "]"
ParseElements(s, i, acc) ==
    IF acc = <<>> /\ i <= Len(s) /\ s[i] = "]" THEN ParseOk(Arr(<<>>), i + 1)
    ELSE ElementParsed(s, ParseValue(s, i), acc)

\* After a member, at the first character k after the whitespace: "," and
\* the next member, or "}".
MembersNext(s, k, acc) ==
    IF k > Len(s) THEN ParseFail
    ELSE IF s[k] = "," THEN ParseMembers(s, SkipWs(s, k + 1), acc)
    ELSE IF s[k] = "}" THEN ParseOk(Obj(acc), k + 1)
    ELSE ParseFail

MemberParsed(s, key, r, acc) ==
    IF ~r.ok THEN ParseFail
    ELSE MembersNext(s, SkipWs(s, r.pos), PutMember(acc, key, r.val))

MemberColon(s, key, c, acc) ==
    IF c > Len(s) \/ s[c] # ":" THEN ParseFail
    ELSE MemberParsed(s, key, ParseValue(s, c + 1), acc)

MemberKeyed(s, key, acc) ==
    IF ~key.ok THEN ParseFail ELSE MemberColon(s, key.val.v, SkipWs(s, key.pos), acc)

\* members: "}" when none was read yet, or
\* string ":" value ("," string ":" value)* "}"
ParseMembers(s, i, acc) ==
    IF i > Len(s) THEN ParseFail
    ELSE IF acc = <<>> /\ s[i] = "}" THEN ParseOk(Obj(<<>>), i + 1)
    ELSE IF s[i] # "\"" THEN ParseFail
    ELSE MemberKeyed(s, ParseString(s, i), acc)

\* What a call returns: a value, or an exception thrown to the caller.
Returned(x) == [threw |-> FALSE, val |-> x]
Thrown == [threw |-> TRUE, val |-> Null]

\* JSON.parse(text): the value, or a SyntaxError when text is not exactly one
\* JSON value between optional whitespace.
ParsedWhole(text, r) ==
    IF r.ok /\ SkipWs(text, r.pos) > Len(text) THEN Returned(r.val) ELSE Thrown

JSON_parse(text) == ParsedWhole(text, ParseValue(text, 1))

\* ------------------------------------------------------------- extractJson

\* The backtick cannot be written in a string literal: Tick stands for it.
Tick == "BACKTICK"

Fence == <<Tick, Tick, Tick>>
JsonFence == Fence \o <<"j", "s", "o", "n">>

\* The first index >= from at which pat occurs in s, or 0.
IndexOf(s, pat, from) ==
    LET hits == {i \in from..Len(s) : OccursAt(s, pat, i)}
    IN  IF hits = {} THEN 0 ELSE Least(hits)

\* The last index of s[from..to] left when its trailing whitespace is dropped.
TrimEnd(s, from, to) ==
    Greatest({j \in (from - 1)..to : j < from \/ ~IsWs(s[j])})

\* str.match(/```json\s*([\s\S]*?)\s*```/): the leftmost ```json, the
\* whitespace after it (greedy), then the shortest capture after which
\* whitespace and ``` follow: the text up to the first ``` at or after the
\* capture's start, less its trailing whitespace.  found is FALSE for a null
\* match; group is match[1].
MatchFrom(str, open, start, close) ==
    IF open = 0 \/ close = 0 THEN [found |-> FALSE, group |-> <<>>]
    ELSE [found |-> TRUE,
          group |-> SubSeq(str, start, TrimEnd(str, start, close - 1))]

CaptureStart(str, open) == IF open = 0 THEN 0 ELSE SkipWs(str, open + Len(JsonFence))

MatchAt(str, open, start) ==
    MatchFrom(str, open, start, IF open = 0 THEN 0 ELSE IndexOf(str, Fence, start))

MatchOpen(str, open) == MatchAt(str, open, CaptureStart(str, open))

jsonRegexMatch(str) == MatchOpen(str, IndexOf(str, JsonFence, 1))

\* catch (error) { return null; }
orNull(r) == IF r.threw THEN Returned(Null) ELSE r

\* try { return JSON.parse(text); } catch (error) { return null; }
parseOrNull(text) == orNull(JSON_parse(text))

\* if (match && match[1]): the branch that parses the capture is taken when
\* the match is not null and the capture is not the empty string.
takesFenceBranch(match) == match.found /\ match.group # <<>>

extractFrom(str, match) ==
    parseOrNull(IF takesFenceBranch(match) THEN match.group ELSE str)

extractJson(str) == extractFrom(str, jsonRegexMatch(str))

\* ------------------------------------------------- texts used as inputs

\* Whitespace runs of at most n characters.
RECURSIVE PadsUpTo(_)
PadsUpTo(n) ==
    IF n = 0 THEN {<<>>}
    ELSE LET shorter == PadsUpTo(n - 1)
         IN  shorter \cup {Append(p, c) : p \in shorter, c \in {" ", "\n"}}

Pads == PadsUpTo(MaxPad)

\* ```json<pre><interior><post>```
Fenced(pre, interior, post) == JsonFence \o pre \o interior \o post \o Fence

Quote == <<"\"">>

\* {"a":1}
TxtObjA1 ==
    <<"{", "\"", "a", "\"", ":", "1", "}">>

\* 1
TxtOne ==
    <<"1">>

\* 0
TxtZero ==
    <<"0">>

\* "x"
TxtStrX ==
    <<"\"", "x", "\"">>

\* ""
TxtStrEmpty ==
    <<"\"", "\"">>

\* [1]
TxtArr ==
    <<"[", "1", "]">>

\* null
TxtNull ==
    <<"n", "u", "l", "l">>

\* true
TxtTrue ==
    <<"t", "r", "u", "e">>

\* false
TxtFalse ==
    <<"f", "a", "l", "s", "e">>

\* the empty string
TxtEmpty ==
    <<>>

\* not json
TxtNotJson ==
    <<"n", "o", "t", " ", "j", "s", "o", "n">>

\* {"a":
TxtTruncated ==
    <<"{", "\"", "a", "\"", ":">>

\* 01
TxtLeadingZero ==
    <<"0", "1">>

\* [1,]
TxtTrailingComma ==
    <<"[", "1", ",", "]">>

\* {"a":"```"}
TxtTicksInside ==
    <<"{", "\"", "a", "\"", ":", "\"", Tick, Tick, Tick, "\"", "}">>

\* {"a":1,"a":0}
TxtDupKey ==
    <<"{", "\"", "a", "\"", ":", "1", ",", "\"", "a", "\"", ":", "0", "}">>

\* {"userSkills":["a"]}
TxtPartial ==
    <<"{", "\"", "u", "s", "e", "r", "S", "k", "i", "l", "l", "s", "\"", ":",
    "[", "\"", "a", "\"", "]", "}">>

\* {"userSkills":[1],"jobSuggestions":[]}
TxtOtherShape ==
    <<"{", "\"", "u", "s", "e", "r", "S", "k", "i", "l", "l", "s", "\"", ":",
    "[", "1", "]", ",", "\"", "j", "o", "b", "S", "u", "g", "g", "e", "s",
    "t", "i", "o", "n", "s", "\"", ":", "[", "]", "}">>

\* {"userSkills":["a"],"jobSuggestions":[]}
TxtNoJobs ==
    <<"{", "\"", "u", "s", "e", "r", "S", "k", "i", "l", "l", "s", "\"", ":",
    "[", "\"", "a", "\"", "]", ",", "\"", "j", "o", "b", "S", "u", "g", "g",
    "e", "s", "t", "i", "o", "n", "s", "\"", ":", "[", "]", "}">>

\* {"userSkills":["a"],"jobSuggestions":[{"title":"t","requiredSkills":["a"],"missingSkills":[{"skill":"s","recommendation":{"course":"c","url":"u"}}]}]}
TxtFull ==
    <<"{", "\"", "u", "s", "e", "r", "S", "k", "i", "l", "l", "s", "\"", ":",
    "[", "\"", "a", "\"", "]", ",", "\"", "j", "o", "b", "S", "u", "g", "g",
    "e", "s", "t", "i", "o", "n", "s", "\"", ":", "[", "{", "\"", "t", "i",
    "t", "l", "e", "\"", ":", "\"", "t", "\"", ",", "\"", "r", "e", "q", "u",
    "i", "r", "e", "d", "S", "k", "i", "l", "l", "s", "\"", ":", "[", "\"",
    "a", "\"", "]", ",", "\"", "m", "i", "s", "s", "i", "n", "g", "S", "k",
    "i", "l", "l", "s", "\"", ":", "[", "{", "\"", "s", "k", "i", "l", "l",
    "\"", ":", "\"", "s", "\"", ",", "\"", "r", "e", "c", "o", "m", "m", "e",
    "n", "d", "a", "t", "i", "o", "n", "\"", ":", "{", "\"", "c", "o", "u",
    "r", "s", "e", "\"", ":", "\"", "c", "\"", ",", "\"", "u", "r", "l", "\"",
    ":", "\"", "u", "\"", "}", "}", "]", "}", "]", "}">>

Interiors ==
    {TxtObjA1, TxtOne, TxtZero, TxtStrX, TxtStrEmpty, TxtArr, TxtNull, TxtTrue,
     TxtFalse, TxtEmpty, TxtNotJson, TxtTruncated, TxtLeadingZero,
     TxtTrailingComma, TxtTicksInside, TxtDupKey, TxtPartial, TxtOtherShape,
     TxtNoJobs, TxtFull}

\* The strings extractJson is applied to: each interior bare, as a fenced
\* block, as a fenced block after a preamble and before a postscript, as a
\* fenced block inside a JSON string literal, between untagged fences, after
\* an unclosed fence, and as the first of two fenced blocks.
RecoverInputs ==
    Interiors
    \cup {Fenced(p, x, q) : p \in Pads, q \in Pads, x \in Interiors}
    \cup {<<"x", " ">> \o Fenced(p, x, q) \o <<" ", "x">> :
            p \in Pads, q \in Pads, x \in Interiors}
    \cup {Quote \o Fenced(p, x, q) \o Quote : p \in Pads, q \in Pads, x \in Interiors}
    \cup {Fence \o p \o x \o p \o Fence : p \in Pads, x \in Interiors}
    \cup {JsonFence \o p \o x : p \in Pads, x \in Interiors}
    \cup {Fenced(p, x, p) \o Fenced(p, TxtOne, p) : p \in Pads, x \in Interiors}

\* ------------------------------------------------------------------ state

VARIABLES
    pc,        \* where the request in flight is: the stage that runs next
    req,       \* the request in flight
    res,       \* the responses sent for it, in order
    calls,     \* how often each collaborator was invoked for it
    generated, \* what model.generateContent / response.text() produced
    decoded,   \* what the decoder produced
    text,      \* the file handler's local `text`
    str,       \* the argument of a stand-alone extractJson call
    recovered  \* what that call returned

vars == <<pc, req, res, calls, generated, decoded, text, str, recovered>>

NotYet == [threw |-> FALSE, val |-> [t |-> "pending", v |-> 0]]

\* ------------------------------------------------ requests and collaborators

PDF == "application/pdf"
DOCX == "application/vnd.openxmlformats-officedocument.wordprocessingml.document"
PLAIN == "text/plain"

\* limits: { fileSize: 10 * 1024 * 1024 }
fileSize == 10 * 1024 * 1024

NoRequest ==
    [endpoint |-> "none", body |-> "none", resumeText |-> Undefined,
     multipart |-> "none", file |-> FALSE, mimetype |-> "", size |-> 0]

\* POST /api/analyze-text: a body express.json() cannot parse, or a JSON
\* object whose resumeText is missing or holds one of these values.
ResumeTexts ==
    {Undefined, Null, Str(<<>>), Str(<<"a">>), Str(<<" ">>), Num(0), Num(5),
     Bool(FALSE)}

TextRequests ==
    {[NoRequest EXCEPT !.endpoint = "text", !.body = "malformed"]}
    \cup {[NoRequest EXCEPT !.endpoint = "text", !.body = "json", !.resumeText = r] :
            r \in ResumeTexts}

\* POST /api/analyze-file: a multipart payload multer cannot parse, one
\* without the field "resume", or one file of a declared type and a size.
FileRequests ==
    {[NoRequest EXCEPT !.endpoint = "file", !.multipart = "malformed"],
     [NoRequest EXCEPT !.endpoint = "file", !.multipart = "ok"]}
    \cup {[NoRequest EXCEPT !.endpoint = "file", !.multipart = "ok", !.file = TRUE,
                            !.mimetype = m, !.size = n] :
            m \in {PDF, DOCX, PLAIN}, n \in {1, fileSize, fileSize + 1}}

Requests == TextRequests \cup FileRequests

ReplyInteriors ==
    {TxtFull, TxtNoJobs, TxtPartial, TxtOtherShape, TxtObjA1, TxtArr, TxtOne,
     TxtZero, TxtStrX, TxtStrEmpty, TxtFalse, TxtNull, TxtNotJson, TxtTruncated}

\* The model's replies: each interior bare and as a fenced block.
Replies ==
    ReplyInteriors \cup {Fenced(p, x, q) : p \in Pads, q \in Pads, x \in ReplyInteriors}

\* model.generateContent(prompt) then response.text(): a reply, or an
\* exception (network error, quota error, blocked response).
Generations ==
    {[threw |-> TRUE, text |-> <<>>]} \cup {[threw |-> FALSE, text |-> t] : t \in Replies}

NotGenerated == [threw |-> FALSE, text |-> <<"?">>]

\* pdf(buffer) / mammoth.extractRawText({buffer}): text, or an exception.
Decodings == {Thrown, Returned(Str(<<>>)), Returned(Str(<<"c", "v">>))}

NoCalls == [model |-> 0, pdf |-> 0, mammoth |-> 0]

\* -------------------------------------------------------------- responses

\* res.status(status).json({ error: message })
JsonError(status, message) ==
    [status |-> status, type |-> "json", error |-> message, analysis |-> Undefined]

\* res.json({ analysis: analysisResult })
JsonAnalysis(analysisResult) ==
    [status |-> 200, type |-> "json", error |-> "", analysis |-> analysisResult]

\* No error-handling middleware is registered: an error passed to next() by
\* express.json() or by multer is answered by the framework's default error
\* handler, an HTML page with the error's status (500 when it has none).
DefaultErrorPage(status) ==
    [status |-> status, type |-> "html", error |-> "", analysis |-> Undefined]

\* ---------------------------------------------------------- analyzeResumeText

\* Mutant: the model call outside the try block.
analyzeUncaught(generation) ==
    IF generation.threw THEN Thrown ELSE orNull(extractJson(generation.text))

\* try { text = (await model.generateContent(prompt)).response.text();
\*       return extractJson(text); } catch (error) { return null; }
analyzeResumeText(generation) ==
    IF generation.threw THEN Returned(Null) ELSE orNull(extractJson(generation.text))

\* ------------------------------------------------------------------ actions

Init ==
    /\ pc = "idle"
    /\ req = NoRequest
    /\ res = <<>>
    /\ calls = NoCalls
    /\ generated = NotGenerated
    /\ decoded = NotYet
    /\ text = Str(<<>>)
    /\ str = <<>>
    /\ recovered = NotYet

\* A request arrives; nothing of the previous one is kept.
Receive ==
    /\ pc \in {"idle", "done"}
    /\ \E r \in Requests :
         /\ req' = r
         /\ pc' = IF r.endpoint = "text" THEN "bodyParser" ELSE "upload"
    /\ res' = <<>>
    /\ calls' = NoCalls
    /\ generated' = NotGenerated
    /\ decoded' = NotYet
    /\ text' = Str(<<>>)
    /\ UNCHANGED <<str, recovered>>

\* app.use(express.json()): a body that does not parse is passed to next()
\* as an error with status 400 and the handler does not run.
BodyParser ==
    /\ pc = "bodyParser"
    /\ IF req.body = "malformed"
       THEN /\ res' = Append(res, DefaultErrorPage(400))
            /\ pc' = "done"
       ELSE /\ res' = res
            /\ pc' = "textHandler"
    /\ UNCHANGED <<req, calls, generated, decoded, text, str, recovered>>

\* Mutant: if (resumeText === undefined)
resumeTextUndefined(resumeText) == resumeText.t = "undefined"

\* if (!resumeText)
resumeTextMissing(resumeText) == ~Truthy(resumeText)

\* app.post('/api/analyze-text'), up to the await.
AnalyzeText ==
    /\ pc = "textHandler"
    /\ IF resumeTextMissing(req.resumeText)
       THEN /\ res' = Append(res, JsonError(400, "Resume text is required"))
            /\ pc' = "done"
            /\ calls' = calls
       ELSE /\ res' = res
            /\ calls' = [calls EXCEPT !.model = @ + 1]
            /\ pc' = "awaitModelText"
    /\ UNCHANGED <<req, generated, decoded, text, str, recovered>>

\* app.post('/api/analyze-text'), from the await on.  The handler has no
\* try/catch: were analyzeResumeText to throw, the handler would end without
\* sending anything.
AnalyzeTextResume ==
    /\ pc = "awaitModelText"
    /\ \E g \in Generations :
         /\ generated' = g
         /\ \E analysisResult \in {analyzeResumeText(g)} :
              res' = IF analysisResult.threw THEN res
                     ELSE IF ~Truthy(analysisResult.val)
                     THEN Append(res, JsonError(500, "Failed to analyze resume from text."))
                     ELSE Append(res, JsonAnalysis(analysisResult.val))
    /\ pc' = "done"
    /\ UNCHANGED <<req, calls, decoded, text, str, recovered>>

\* Mutant: multer() without limits.
noLimit(size) == FALSE

\* multer's fileSize limit: a file longer than the limit is an error.
exceedsLimit(size) == size > fileSize

\* upload.single('resume'): a payload that is not well-formed multipart, or a
\* file over the limit, is passed to next() as an error without a status and
\* the handler does not run.
Upload ==
    /\ pc = "upload"
    /\ IF req.multipart = "malformed" \/ (req.file /\ exceedsLimit(req.size))
       THEN /\ res' = Append(res, DefaultErrorPage(500))
            /\ pc' = "done"
       ELSE /\ res' = res
            /\ pc' = "fileHandler"
    /\ UNCHANGED <<req, calls, generated, decoded, text, str, recovered>>

\* Mutant: every type that is not DOCX is handed to the PDF decoder.
decoderPdfByDefault(mimetype) == IF mimetype = DOCX THEN "mammoth" ELSE "pdf"

\* The decoder the mimetype selects: "pdf", "mammoth", or "none".
decoderFor(mimetype) ==
    IF mimetype = PDF THEN "pdf"
    ELSE IF mimetype = DOCX THEN "mammoth"
    ELSE "none"

\* app.post('/api/analyze-file'), up to the await of the decoder.
AnalyzeFile ==
    /\ pc = "fileHandler"
    /\ IF ~req.file
       THEN /\ res' = Append(res, JsonError(400, "No file uploaded."))
            /\ pc' = "done"
            /\ calls' = calls
       ELSE IF decoderFor(req.mimetype) = "none"
       THEN /\ res' = Append(res,
                 JsonError(400, "Unsupported file type. Please upload a PDF or DOCX file."))
            /\ pc' = "done"
            /\ calls' = calls
       ELSE /\ res' = res
            /\ calls' = [calls EXCEPT ![decoderFor(req.mimetype)] = @ + 1]
            /\ pc' = "awaitDecoder"
    /\ UNCHANGED <<req, generated, decoded, text, str, recovered>>

\* Mutant: the check of the extracted text left out.
textNeverMissing(extracted) == FALSE

\* Mutant: a catch block that only logs.
catchLogsOnly(sent) == sent

\* if (!text)
textMissing(extracted) == ~Truthy(extracted)

\* catch (error) { res.status(500).json({ error: ... }); }
catchBlock(sent) == Append(sent, JsonError(500, "An internal server error occurred."))

\* app.post('/api/analyze-file'), from the decoder's await to the model's.
AnalyzeFileDecoded ==
    /\ pc = "awaitDecoder"
    /\ \E d \in Decodings :
         /\ decoded' = d
         /\ IF d.threw
            THEN /\ res' = catchBlock(res)
                 /\ pc' = "done"
                 /\ UNCHANGED <<text, calls>>
            ELSE IF textMissing(d.val)
            THEN /\ text' = d.val
                 /\ res' = Append(res, JsonError(500, "Failed to extract text from the file."))
                 /\ pc' = "done"
                 /\ calls' = calls
            ELSE /\ text' = d.val
                 /\ res' = res
                 /\ calls' = [calls EXCEPT !.model = @ + 1]
                 /\ pc' = "awaitModelFile"
    /\ UNCHANGED <<req, generated, str, recovered>>

\* app.post('/api/analyze-file'), from the model's await on; an exception is
\* caught by the handler's catch block.
AnalyzeFileResume ==
    /\ pc = "awaitModelFile"
    /\ \E g \in Generations :
         /\ generated' = g
         /\ \E analysisResult \in {analyzeResumeText(g)} :
              res' = IF analysisResult.threw THEN catchBlock(res)
                     ELSE IF ~Truthy(analysisResult.val)
                     THEN Append(res, JsonError(500, "Failed to analyze resume from file."))
                     ELSE Append(res, JsonAnalysis(analysisResult.val))
    /\ pc' = "done"
    /\ UNCHANGED <<req, calls, decoded, text, str, recovered>>

Next ==
    \/ Receive
    \/ BodyParser
    \/ AnalyzeText
    \/ AnalyzeTextResume
    \/ Upload
    \/ AnalyzeFile
    \/ AnalyzeFileDecoded
    \/ AnalyzeFileResume

Spec == Init /\ [][Next]_vars

\* Once a collaborator has returned or thrown, the event loop runs the
\* continuation of the handler that awaits it; a request received is passed
\* through the middleware to its handler.
Handle ==
    \/ BodyParser
    \/ AnalyzeText
    \/ AnalyzeTextResume
    \/ Upload
    \/ AnalyzeFile
    \/ AnalyzeFileDecoded
    \/ AnalyzeFileResume

FairSpec == Spec /\ WF_vars(Handle)

\* ------------------------------------------- extractJson on its own

InitRecover ==
    /\ pc = "recover"
    /\ req = NoRequest
    /\ res = <<>>
    /\ calls = NoCalls
    /\ generated = NotGenerated
    /\ decoded = NotYet
    /\ text = Str(<<>>)
    /\ str \in RecoverInputs
    /\ recovered = NotYet

Recover ==
    /\ pc = "recover"
    /\ recovered' = extractJson(str)
    /\ pc' = "recovered"
    /\ UNCHANGED <<req, res, calls, generated, decoded, text, str>>

NextRecover == Recover

SpecRecover == InitRecover /\ [][NextRecover]_vars

K_userSkills == <<"u", "s", "e", "r", "S", "k", "i", "l", "l", "s">>
K_jobSuggestions == <<"j", "o", "b", "S", "u", "g", "g", "e", "s", "t", "i", "o", "n", "s">>
K_title == <<"t", "i", "t", "l", "e">>
K_requiredSkills == <<"r", "e", "q", "u", "i", "r", "e", "d", "S", "k", "i", "l", "l", "s">>
K_missingSkills == <<"m", "i", "s", "s", "i", "n", "g", "S", "k", "i", "l", "l", "s">>
K_skill == <<"s", "k", "i", "l", "l">>
K_recommendation == <<"r", "e", "c", "o", "m", "m", "e", "n", "d", "a", "t", "i", "o", "n">>
K_course == <<"c", "o", "u", "r", "s", "e">>
K_url == <<"u", "r", "l">>

\* ------------------------------------------------------------------ claims

\* obj[key], or undefined.
Get(obj, key) ==
    IF \E i \in 1..Len(obj.v) : obj.v[i][1] = key
    THEN obj.v[CHOOSE i \in 1..Len(obj.v) : obj.v[i][1] = key][2]
    ELSE Undefined

IsString(x) == x.t = "str"
IsStrings(x) == x.t = "arr" /\ \A i \in 1..Len(x.v) : IsString(x.v[i])

\* { course: string, url: string }
IsRecommendation(x) ==
    /\ x.t = "obj"
    /\ IsString(Get(x, K_course))
    /\ IsString(Get(x, K_url))

\* MissingSkill: { skill: string, recommendation }
IsMissingSkill(x) ==
    /\ x.t = "obj"
    /\ IsString(Get(x, K_skill))
    /\ IsRecommendation(Get(x, K_recommendation))

IsMissingSkills(x) == x.t = "arr" /\ \A i \in 1..Len(x.v) : IsMissingSkill(x.v[i])

\* JobSuggestion: { title, requiredSkills, missingSkills }
IsJobSuggestion(x) ==
    /\ x.t = "obj"
    /\ IsString(Get(x, K_title))
    /\ IsStrings(Get(x, K_requiredSkills))
    /\ IsMissingSkills(Get(x, K_missingSkills))

IsJobSuggestions(x) == x.t = "arr" /\ \A i \in 1..Len(x.v) : IsJobSuggestion(x.v[i])

\* AnalysisResult: { userSkills, jobSuggestions }
IsAnalysisResult(x) ==
    /\ x.t = "obj"
    /\ IsStrings(Get(x, K_userSkills))
    /\ IsJobSuggestions(Get(x, K_jobSuggestions))

Responses == {res[k] : k \in 1..Len(res)}

\* C1: on either endpoint, a 200 response carries a well-formed
\* AnalysisResult; a reply that recovers to anything else fails the request.
C1_SuccessIsWellFormed ==
    \A r \in Responses : r.status = 200 => IsAnalysisResult(r.analysis)

\* C2: every request ends in exactly one response and every response that
\* is a failure is a JSON envelope with an error string and a 4xx/5xx status,
\* the failures of the body parser and of the upload middleware included.
C2_FailureIsJsonEnvelope ==
    pc = "done" =>
        /\ Len(res) = 1
        /\ res[1].status # 200 =>
             /\ res[1].type = "json"
             /\ res[1].error # ""
             /\ res[1].status \in 400..599

MissingOrEmpty(x) == x.t \in {"undefined", "null"} \/ (x.t = "str" /\ x.v = <<>>)
NonEmptyString(x) == x.t = "str" /\ x.v # <<>>

RequiredResumeText == JsonError(400, "Resume text is required")

\* C3: an analyze-from-text request whose body has a missing or empty
\* resumeText is answered 400 { error: "Resume text is required" } and the
\* model is not invoked for it; a request with a non-empty resumeText is
\* never answered with that 400.
C3_ResumeTextRequired ==
    (req.endpoint = "text" /\ req.body = "json") =>
        /\ MissingOrEmpty(req.resumeText) =>
             /\ calls.model = 0
             /\ pc \in {"bodyParser", "textHandler"} \/ (pc = "done" /\ res = <<RequiredResumeText>>)
        /\ NonEmptyString(req.resumeText) => RequiredResumeText \notin Responses

C3_Witness ==
    /\ pc = "done"
    /\ req.endpoint = "text"
    /\ req.resumeText = Str(<<>>)
    /\ res = <<RequiredResumeText>>
    /\ calls.model = 0

FailedToAnalyze(endpoint) ==
    IF endpoint = "text" THEN JsonError(500, "Failed to analyze resume from text.")
    ELSE JsonError(500, "Failed to analyze resume from file.")

\* C4: when the model call throws, analyzeResumeText returns null without
\* throwing and the endpoint answers 500 with its own message: "... from
\* text." on analyze-from-text, "... from file." on analyze-from-file.
C4_ModelFailureIsNull ==
    (pc = "done" /\ generated.threw) =>
        /\ analyzeResumeText(generated) = Returned(Null)
        /\ res = <<FailedToAnalyze(req.endpoint)>>

C4_Witness ==
    /\ pc = "done"
    /\ generated.threw
    /\ req.endpoint = "file"
    /\ res = <<JsonError(500, "Failed to analyze resume from file.")>>

\* The request went through upload.single('resume') to the file handler.
ReachedFileHandler ==
    /\ req.endpoint = "file"
    /\ req.multipart = "ok"
    /\ ~(req.file /\ req.size > 10 * 1024 * 1024)

\* The response the stages fix, the analyzer's failure being `failed`.
FileResponse(analysis, failed) ==
    IF ~req.file THEN JsonError(400, "No file uploaded.")
    ELSE IF req.mimetype \notin {PDF, DOCX}
    THEN JsonError(400, "Unsupported file type. Please upload a PDF or DOCX file.")
    ELSE IF decoded.threw THEN JsonError(500, "An internal server error occurred.")
    ELSE IF decoded.val = Str(<<>>)
    THEN JsonError(500, "Failed to extract text from the file.")
    ELSE IF failed THEN JsonError(500, "Failed to analyze resume from file.")
    ELSE JsonAnalysis(analysis)

FileStages(analysis, failed) ==
    /\ res = <<FileResponse(analysis, failed)>>
    /\ (req.file /\ req.mimetype \notin {PDF, DOCX}) => (calls.pdf = 0 /\ calls.mammoth = 0)

C6_OversizedRejected ==
    (req.endpoint = "file" /\ req.file /\ req.size > 10 * 1024 * 1024) =>
        /\ calls = NoCalls
        /\ pc \in {"upload", "done"}
        /\ \A r \in Responses : r.status # 200

C6_Witness ==
    /\ pc = "done"
    /\ req.endpoint = "file"
    /\ req.file
    /\ req.mimetype = PDF
    /\ req.size > 10 * 1024 * 1024
    /\ Len(res) = 1

\* The whole string is one json-tagged fenced block.
IsFencedBlock(s) ==
    /\ Len(s) >= Len(JsonFence) + Len(Fence)
    /\ SubSeq(s, 1, Len(JsonFence)) = JsonFence
    /\ SubSeq(s, Len(s) - Len(Fence) + 1, Len(s)) = Fence

InteriorOf(s) == SubSeq(s, Len(JsonFence) + 1, Len(s) - Len(Fence))

HasJsonFence(s) == \E i \in 1..Len(s) : OccursAt(s, JsonFence, i)

ValidJson(s) == ~JSON_parse(s).threw

\* C7: extractJson never throws; a fenced block whose interior is valid
\* JSON yields the parsed interior, valid JSON without a fence yields the
\* parsed value, and a string that is neither (no fence and not JSON, or a
\* fenced block whose interior is malformed) yields null.
C7_RecoversOrNull ==
    pc = "recovered" =>
        /\ ~recovered.threw
        /\ (IsFencedBlock(str) /\ ValidJson(InteriorOf(str))) =>
             recovered.val = JSON_parse(InteriorOf(str)).val
        /\ (~HasJsonFence(str) /\ ValidJson(str)) => recovered.val = JSON_parse(str).val
        /\ (~HasJsonFence(str) /\ ~ValidJson(str)) => recovered.val = Null
        /\ (IsFencedBlock(str) /\ ~ValidJson(InteriorOf(str))) => recovered.val = Null

\* C8: the whole string is parsed only when no fenced block is found; when
\* one is found, its interior being empty included, the result is the parse
\* of the interior or null.
C8_FenceFoundNeverWholeParse ==
    (pc = "recovered" /\ jsonRegexMatch(str).found) =>
        recovered = parseOrNull(jsonRegexMatch(str).group)

StagesBeforeModel ==
    IF req.endpoint = "text" THEN req.body = "json" /\ ~MissingOrEmpty(req.resumeText)
    ELSE /\ req.file
         /\ req.mimetype \in {PDF, DOCX}
         /\ calls.pdf + calls.mammoth = 1
         /\ ~decoded.threw
         /\ NonEmptyString(decoded.val)

\* C9: per request the model is invoked at most once, and only after every
\* earlier stage has succeeded; a decoder is invoked at most once, and only
\* for a file of a supported type; once a response is sent no collaborator
\* is invoked for the request any more.
C9_ModelOnceAndLast ==
    /\ [](/\ calls.model <= 1
          /\ calls.pdf + calls.mammoth <= 1
          /\ calls.model = 1 => StagesBeforeModel
          /\ calls.pdf + calls.mammoth = 1 =>
               (req.endpoint = "file" /\ req.file /\ req.mimetype \in {PDF, DOCX}))
    /\ [][res # <<>> => (calls' = calls \/ res' = <<>>)]_vars

C9_Witness ==
    /\ pc = "done"
    /\ req.endpoint = "file"
    /\ calls.model = 1
    /\ generated.threw
    /\ Len(res) = 1

\* C10: a request that reaches a handler gets exactly one response: the
\* handler eventually sends one, and never a second.
C10_ExactlyOneResponse ==
    /\ [](Len(res) <= 1)
    /\ [](pc = "done" => Len(res) = 1)
    /\ (pc \in {"textHandler", "fileHandler"}) ~> (pc = "done" /\ Len(res) = 1)

C10_Witness ==
    /\ pc = "done"
    /\ req.endpoint = "file"
    /\ decoded.threw
    /\ res = <<JsonError(500, "An internal server error occurred.")>>

====
